---------------------------- MODULE Spec2Model ----------------------------
(***************************************************************************)
(* A model of the diagnostic logging core of org-quicko/core-js.           *)
(*                                                                         *)
(* Part 1, the diagnostic context MDC (src/src/logger/LoggerFactory.ts,    *)
(* lines 188-268).  MDC keeps one AsyncLocalStorage<ContextMap>.  A store  *)
(* is a JavaScript object, so the model keeps a heap of objects with       *)
(* identities: the store a continuation sees is a reference into that heap *)
(* and two references to one object see each other's writes.               *)
(*                                                                         *)
(* Part 2, the error-chain serializer (src/src/logger/format/             *)
(* ErrorFormat.ts): a graph of errors and plain objects built by the      *)
(* application, and ErrorFormat applied to one of them as the log record. *)
(*                                                                         *)
(* Part 3, the logger factory (src/src/logger/LoggerFactory.ts, lines 27  *)
(* to 134): the static field holding the base logger, the loggers built   *)
(* by createLogger, the handles returned by getLogger and the log calls   *)
(* made through them.                                                     *)
(*                                                                         *)
(* Part 4, the console logger provider (the same file, lines 276 to 312): *)
(* log calls made by the continuations of Part 1 through a logger whose   *)
(* format reads the MDC.                                                   *)
(*                                                                         *)
(* Part 5, the smaller units: the name-keyed logger registry (the same    *)
(* file, lines 144 to 185), DateUtil.readDate and isValidDate             *)
(* (src/unnamed/part_000), JSONObject.getBoolean (src/src/types/          *)
(* JSONObject.ts) and BaseException.getStackTrace (src/src/exceptions/    *)
(* BaseException.ts), each with the calls the application makes of it.    *)
(*                                                                         *)
(* Scope of the inputs: context maps are ordinary extensible objects and   *)
(* keys are ordinary strings (not names of Object.prototype members).      *)
(* Continuations run to completion one at a time (one cooperative          *)
(* scheduler); a continuation spawned by another inherits the store the    *)
(* spawner sees at that moment; AsyncLocalStorage.run restores the store   *)
(* it replaced when the callback returns or throws.                        *)
(***************************************************************************)
EXTENDS Integers, Sequences, FiniteSets, TLC

(* ------------------------------ bounds -------------------------------- *)
\* objects (errors and plain objects) in the graph given to the serializer
MaxNodes == 3
\* properties (cause, or another enumerable property) set in that graph
MaxEdges == 2
\* events in one behaviour: the state-changing MDC calls (put, putAll,
\* clear, runWithContext) and the creations of continuations
MaxOps == 5
\* calls of the logger factory and of its handles: createLogger, getLogger
\* and log calls
MaxCalls == 5
\* calls of the registry's createLogger
MaxRegCalls == 3

(* ------------------------------ values -------------------------------- *)
Keys == {"a", "b"}
Vals == {"1", "2"}
\* undefined: the value of an unset key, and what get returns without a store
Absent == "undefined"
\* the outcome of reading or writing a property of undefined
TypeError == "TypeError"
\* getStore() = undefined: no context is active
NoStore == 0

\* every call allocates at most one object
ObjIds == 1..MaxOps
\* and creates at most one continuation
TaskIds == 1..MaxOps

\* the object literal {}
EmptyMap == [k \in Keys |-> Absent]
\* the object literals callers pass: {}, {a:"1"}, {b:"2"}
Literals ==
  { EmptyMap,
    [EmptyMap EXCEPT !["a"] = "1"],
    [EmptyMap EXCEPT !["b"] = "2"] }

VARIABLES
  heap,      \* object id -> its own properties
  kind,      \* object id -> "free" | "caller" (a map a caller holds) | "internal"
  nobj,      \* objects allocated so far
  tstatus,   \* continuation -> "unborn" | "pending" | "running" | "done"
  tstore,    \* continuation -> the store its async resource refers to
  tchain,    \* continuation -> the chain (unit of work) it belongs to
  ntask,     \* continuations created so far
  cur,       \* the continuation that is running, 0 when the scheduler is idle
  frames,    \* the stores replaced by the runWithContext calls the running continuation is inside
  nops,      \* events so far
  threw,     \* whether the last MDC operation threw
  hist,      \* history of the behaviour, kept for the properties (see the History section)
  gkind,     \* serializer input: object -> "free" | "error" | "plain"
  gcause,    \* object -> the value of its property cause
  gx,        \* object -> the value of its other own enumerable property
  nnode,     \* objects created so far
  nedge,     \* properties set so far
  out,       \* what the last ErrorFormat call returned, [t |-> "none"] before any
  prev,      \* what the ErrorFormat call before the last returned
  flogger,   \* LoggerFactory.logger: NoLogger (undefined) or a logger object
  lstat,     \* logger object -> "none" | "partial" | "built"
  lconf,     \* logger object -> the configuration it was built with
  nlog,      \* logger objects allocated so far
  hbase,     \* handle -> the logger object it is a child of (NoLogger: unused)
  hlabel,    \* handle -> its label
  nh,        \* handles returned so far
  fres,      \* outcome of the last createLogger / getLogger call
  pend,      \* log calls started and not yet processed
  rec,       \* the last record handed to the sinks
  ncall,     \* calls made so far
  prec,      \* the last record of the console logger provider's logger
  loggers,   \* the registry: the entries of the Map `loggers`
  rres,      \* outcome of the last call of the registry's createLogger
  nreg,      \* calls of the registry's createLogger so far
  dres,      \* outcome of the last DateUtil call
  jmap,      \* a JSONObject: the entries of the Map
  jres,      \* outcome of the last getBoolean call
  tpc,       \* getStackTrace: "idle" | "loop" | "done"
  tcause,    \* getStackTrace: currentCause
  tout       \* getStackTrace: the 'Caused by' entries added to stackTrace

serVars == <<gkind, gcause, gx, nnode, nedge, out, prev>>

facVars == <<flogger, lstat, lconf, nlog, hbase, hlabel, nh, fres, pend, rec, ncall>>

provVars == <<prec>>
regVars == <<loggers, rres, nreg>>
dateVars == <<dres>>
jsonVars == <<jmap, jres>>
traceVars == <<tpc, tcause, tout>>
utilVars == <<regVars, dateVars, jsonVars, traceVars>>

mdcVars == <<heap, kind, nobj, tstatus, tstore, tchain, ntask, cur, frames, nops, threw>>

vars == <<mdcVars, hist, serVars, facVars, provVars, utilVars>>

(* ----------------------- MDC: the code's operations ------------------- *)

\* store[key]: reading a property of undefined throws
Deref(h, s, k) == IF s = NoStore THEN TypeError ELSE h[s][k]

\* get without the test for a missing store
MDCget_NoGuard(h, s, k) == Deref(h, s, k)

\* MDC.get
MDCget(h, s, k) == IF s # NoStore THEN Deref(h, s, k) ELSE Absent

\* put that starts from a new {} every time
MDCput_Fresh(h, s, k, v, fresh) ==
  [ heap |-> [h EXCEPT ![fresh][k] = v], store |-> fresh, threw |-> FALSE ]

\* put that writes the new {} and does not enter it
MDCput_NoEnter(h, s, k, v, fresh) ==
  LET store == IF s = NoStore THEN fresh ELSE s
  IN  [ heap |-> [h EXCEPT ![store][k] = v], store |-> s, threw |-> FALSE ]

\* MDC.put: the store, or a new {} when there is none, is written in place
\* and entered.  fresh is the identity the new {} gets.
\* put that writes a copy of the store and enters the copy
MDCput_Copy(h, s, k, v, fresh) ==
  LET old == IF s = NoStore THEN EmptyMap ELSE h[s] IN
    [heap |-> [h EXCEPT ![fresh] = [old EXCEPT ![k] = v]], store |-> fresh, threw |-> FALSE]

MDCput(h, s, k, v, fresh) ==
  LET store == IF s = NoStore THEN fresh ELSE s
  IN  [ heap  |-> [h EXCEPT ![store][k] = v],
        store |-> store,
        threw |-> (store = NoStore) ]

\* MDC.putAll: the entries of context are written into the store (into a
\* temporary {} when there is none, which nothing refers to afterwards),
\* and then the argument object itself is entered.
MDCputAll(h, s, context) ==
  LET merged(o) == [k \in Keys |-> IF h[context][k] # Absent
                                   THEN h[context][k] ELSE h[o][k]]
  IN  [ heap  |-> IF s = NoStore THEN h ELSE [h EXCEPT ![s] = merged(s)],
        store |-> context,
        threw |-> FALSE ]

\* clear that enters nothing
MDCclear_Keep(h, s, fresh) == [ heap |-> h, store |-> s, threw |-> FALSE ]

\* clear that deletes the keys of the current store object
MDCclear_Wipe(h, s, fresh) ==
  [ heap  |-> IF s = NoStore THEN h ELSE [h EXCEPT ![s] = EmptyMap],
    store |-> s,
    threw |-> FALSE ]

\* MDC.clear: a new {} is entered; no object is written
MDCclear(h, s, fresh) ==
  [ heap |-> h, store |-> fresh, threw |-> FALSE ]

\* MDC.runWithContext, entry: storage.run makes context the store
RunStore(s, context) == context

\* MDC.runWithContext, exit: storage.run puts back the store it replaced
RestoreStore(s, saved) == saved

(* ------------------------------ helpers ------------------------------- *)

\* what get returns for every key, as continuation t sees it
View(t) == [k \in Keys |-> MDCget(heap, tstore[t], k)]

Live(t) == tstatus[t] \in {"pending", "running"}

\* the store of continuation t outside every runWithContext call it is in
BaseStore(t) == IF t = cur /\ frames # <<>> THEN frames[1] ELSE tstore[t]

SameChain(t) == { u \in TaskIds : tstatus[u] # "unborn" /\ tchain[u] = tchain[t] }

(* ------------- LoggerFactory: values and the code's operations -------- *)

\* LoggerFactory.logger before any assignment
NoLogger == 0
LoggerIds == 1..MaxCalls
HandleIds == 1..MaxCalls

\* an option the caller left out
Unset == "unset"
\* LoggingLevel, and the npm rank of a level (a logger of level l lets
\* through the records whose level has a rank up to that of l)
Levels == {"error", "info", "debug"}
LevelRank(l) == CASE l = "error" -> 0 [] l = "info" -> 2 [] l = "debug" -> 5
\* the levels of the log calls
CallLevels == {"info", "debug"}
Labels == {"A", "B"}

\* createLogger(): no options object
NoOptions == [level |-> Unset, format |-> Unset, transports |-> Unset]
\* the options objects the callers pass
OptionsIn ==
  { NoOptions,
    [level |-> "error", format |-> Unset, transports |-> Unset],
    [level |-> "debug", format |-> "custom", transports |-> <<"File">>] }

\* winston.format.combine(timestamp(), errors(...), ErrorFormat(), json())
defaultFormat == <<"timestamp", "errors", "ErrorFormat", "json">>

\* the step of createLogger that throws, if one does
FailAt == {"none", "format", "createLogger"}
\* the error that step throws
Thrown(step) == [name |-> "Error", thrownBy |-> step]
\* new BaseException(message, cause, code)
BaseException(message, cause, code) ==
  [name |-> "BaseException", message |-> message, cause |-> cause, code |-> code]

NoConf == [level |-> Unset, format |-> <<>>, transports |-> <<>>]
NoExc == [name |-> Unset]

\* a configuration that puts the caller's format after the default steps
LoggerConf_CustomLast(options) ==
  [ level      |-> IF options.level # Unset THEN options.level ELSE "info",
    format     |-> IF options.format # Unset
                   THEN defaultFormat \o <<options.format>>
                   ELSE defaultFormat,
    transports |-> IF options.transports # Unset
                   THEN options.transports
                   ELSE <<"Console">> ]

\* the argument of winston.createLogger
LoggerConf(options) ==
  [ level      |-> IF options.level # Unset THEN options.level ELSE "info",
    format     |-> IF options.format # Unset
                   THEN <<options.format>> \o defaultFormat
                   ELSE defaultFormat,
    transports |-> IF options.transports # Unset
                   THEN options.transports
                   ELSE <<"Console">> ]

\* createLogger that assigns the static field before the logger is built
createLogger_SwapFirst(logger, id, options, fail) ==
  IF fail = "none"
  THEN [ logger |-> id, stat |-> "built", conf |-> LoggerConf(options),
         threw |-> FALSE, exc |-> NoExc, ret |-> id ]
  ELSE [ logger |-> id, stat |-> "partial", conf |-> NoConf,
         threw |-> TRUE, ret |-> NoLogger,
         exc |-> BaseException("Error creating logger", Thrown(fail), 500) ]

\* createLogger that clears the static field when construction fails
createLogger_ResetOnFail(logger, id, options, fail) ==
  IF fail = "none"
  THEN [ logger |-> id, stat |-> "built", conf |-> LoggerConf(options),
         threw |-> FALSE, exc |-> NoExc, ret |-> id ]
  ELSE [ logger |-> NoLogger,
         stat |-> IF fail = "createLogger" THEN "partial" ELSE "none",
         conf |-> NoConf, threw |-> TRUE, ret |-> NoLogger,
         exc |-> BaseException("Error creating logger", Thrown(fail), 500) ]

\* LoggerFactory.createLogger(options).  logger is the static field, id the
\* object winston.createLogger allocates, fail the step that throws.  The
\* result gives the static field after the call, what became of object id,
\* and what the call returned or threw.
createLogger(logger, id, options, fail) ==
  IF fail = "none"
  THEN [ logger |-> id, stat |-> "built", conf |-> LoggerConf(options),
         threw |-> FALSE, exc |-> NoExc, ret |-> id ]
  ELSE [ logger |-> logger,
         \* thrown inside winston.createLogger: the object exists, unfinished
         stat |-> IF fail = "createLogger" THEN "partial" ELSE "none",
         conf |-> NoConf, threw |-> TRUE, ret |-> NoLogger,
         exc |-> BaseException("Error creating logger", Thrown(fail), 500) ]

\* getLogger that builds a default base logger at every call
getLogger_AlwaysCreate(logger, id, label, fail) ==
  LET r == createLogger(logger, id, NoOptions, fail) IN
    [ logger |-> r.logger, stat |-> r.stat, conf |-> r.conf,
      threw |-> r.threw, exc |-> r.exc, ret |-> r.ret,
      child |-> [base |-> r.ret, label |-> label] ]

\* getLogger whose handles take no label of their own
getLogger_NoLabel(logger, id, label, fail) ==
  LET r == IF logger # NoLogger
           THEN [ logger |-> logger, stat |-> "none", conf |-> NoConf,
                  threw |-> FALSE, exc |-> NoExc, ret |-> logger ]
           ELSE createLogger(logger, id, NoOptions, fail)
  IN  [ logger |-> r.logger, stat |-> r.stat, conf |-> r.conf,
        threw |-> r.threw, exc |-> r.exc, ret |-> r.ret,
        child |-> [base |-> r.ret, label |-> "A"] ]

\* LoggerFactory.getLogger(label): baseLogger is the static field when it is
\* set, the result of createLogger() otherwise; the handle is
\* baseLogger.child({ label })
getLogger(logger, id, label, fail) ==
  LET r == IF logger # NoLogger
           THEN [ logger |-> logger, stat |-> "none", conf |-> NoConf,
                  threw |-> FALSE, exc |-> NoExc, ret |-> logger ]
           ELSE createLogger(logger, id, NoOptions, fail)
  IN  [ logger |-> r.logger, stat |-> r.stat, conf |-> r.conf,
        threw |-> r.threw, exc |-> r.exc, ret |-> r.ret,
        child |-> [base |-> r.ret, label |-> label] ]

\* no log call, and no record yet
NoCall == [h |-> 0, level |-> Unset, at |-> NoLogger, n |-> 0]
NoRecord == [call |-> NoCall, out |-> [t |-> "none"]]

\* a log call made through handle h: the child writes to the logger object
\* it was made from, with its label in the metadata; that logger drops the
\* record if its level does not let it through and runs its format on it
Emit(h, level) ==
  LET base == hbase[h] IN
    IF LevelRank(level) > LevelRank(lconf[base].level) THEN [t |-> "dropped", h |-> h, by |-> base]
    ELSE [ t |-> "record", h |-> h, level |-> level, label |-> hlabel[h],
           timestamp |-> \E i \in 1..Len(lconf[base].format) :
                            lconf[base].format[i] = "timestamp",
           by |-> base, format |-> lconf[base].format,
           transports |-> lconf[base].transports ]

InitFac ==
  /\ flogger = NoLogger
  /\ lstat = [l \in LoggerIds |-> "none"]
  /\ lconf = [l \in LoggerIds |-> NoConf]
  /\ nlog = 0
  /\ hbase = [h \in HandleIds |-> NoLogger]
  /\ hlabel = [h \in HandleIds |-> Unset]
  /\ nh = 0
  /\ fres = [op |-> "none"]
  /\ pend = {}
  /\ rec = NoRecord
  /\ ncall = 0

(* ----------- ConsoleLoggerProvider: values and the format ------------- *)

\* the two keys the format reads.  The model's two keys stand for them:
\* "a" for 'path', "b" for 'x-api-transaction-id'.
PathKey == "a"
TransactionKey == "b"

\* a format that reads both fields from the same key
addMdcDataFormat_OneKey(h, s) ==
  [ path |-> MDCget(h, s, PathKey), transaction_id |-> MDCget(h, s, PathKey) ]

\* addMdcDataFormat: info.path = MDC.get('path'),
\* info.transaction_id = MDC.get('x-api-transaction-id'); h is the heap and s
\* the store of the continuation in which the format runs
addMdcDataFormat(h, s) ==
  [ path |-> MDCget(h, s, PathKey),
    transaction_id |-> MDCget(h, s, TransactionKey) ]

\* no record yet
InitProv == prec = [t |-> "none"]

(* ------------- the logger registry: values and createLogger ---------- *)

\* the names given to the registry's createLogger: strings, and a value
\* that is not a string
Names ==
  { [type |-> "string", v |-> "A"], [type |-> "string", v |-> "B"],
    [type |-> "number", v |-> "42"] }

\* Map: has, get, set on a set of entries [label, logger]
MapHas(m, label) == \E e \in m : e.label = label
MapGet(m, label) == (CHOOSE e \in m : e.label = label).logger
MapSet(m, label, logger) ==
  {e \in m : e.label # label} \cup {[label |-> label, logger |-> logger]}

\* new ClientException(message, cause, code)
ClientException(message, cause, code) ==
  [name |-> "ClientException", message |-> message, cause |-> cause, code |-> code]

\* the logger winston.createLogger returns for the registry; id tells the
\* objects apart
RegistryLogger(id, label, level, format) ==
  [ id |-> id, level |-> level,
    format |-> IF format # Unset THEN <<format, "timestamp", "json">>
               ELSE <<"timestamp", "json">>,
    defaultMeta |-> label, transports |-> <<"Console">> ]

\* the registry's createLogger without the lookup of the label
registryCreateLogger_NoLookup(m, id, name, level, format, fail) ==
  LET label == IF name.type = "string" THEN name.v ELSE "Unknown"
      lvl == IF level = Unset THEN "info" ELSE level
      logger == RegistryLogger(id, label, lvl, format)
  IN  IF fail # "none"
      THEN [ loggers |-> m, threw |-> TRUE, ret |-> [id |-> 0],
             exc |-> ClientException("Error creating logger", Thrown(fail), 500) ]
      ELSE [ loggers |-> MapSet(m, label, logger), threw |-> FALSE,
             ret |-> logger, exc |-> NoExc ]

\* LoggerFactory.createLogger(name, level = LoggingLevel.info, format) of the
\* name-keyed registry; m is the Map `loggers`, id the identity of the
\* logger that winston.createLogger would return, fail the step that throws
registryCreateLogger(m, id, name, level, format, fail) ==
  LET label == IF name.type = "string" THEN name.v ELSE "Unknown"
      lvl == IF level = Unset THEN "info" ELSE level
      logger == RegistryLogger(id, label, lvl, format)
  IN  IF MapHas(m, label)
      THEN [ loggers |-> m, threw |-> FALSE, ret |-> MapGet(m, label),
             exc |-> NoExc ]
      ELSE IF fail # "none"
      THEN [ loggers |-> m, threw |-> TRUE, ret |-> [id |-> 0],
             exc |-> ClientException("Error creating logger", Thrown(fail), 500) ]
      ELSE [ loggers |-> MapSet(m, label, logger), threw |-> FALSE,
             ret |-> logger, exc |-> NoExc ]

(* ------------------------------- Init --------------------------------- *)

\* objects the serializer can be given
Nodes == 1..MaxNodes
\* the value undefined (an unset property)
Undef == 0
\* a primitive value (a string, a number)
Prim == -1
\* a value made by an earlier call of the format and stored in its record:
\* a plain object `serialized`, or the marker string
Made == -2

(* ---------------- DateUtil: parse, readDate, isValidDate ------------- *)

\* DateUtil.ISO_8601_FORMAT
ISO_8601_FORMAT == "yyyy-MM-dd'T'HH:mm:ss.SSSxxx"

\* the date strings given: a layout and its two numeric fields that matter
\* (of the year 2023); "iso" reads 2023-<a>-<b>T10:20:30.000+00:00, "dashes"
\* reads <a>-<b>-2023, "text" is 'invalid-date-string'
DateFields == {2, 12, 30}
DateStrings ==
  [layout : {"iso", "dashes"}, a : DateFields, b : DateFields]
    \cup {[layout |-> "text", a |-> 0, b |-> 0]}
\* the formats given; Unset: left out. The last one holds the letter n, which
\* is no token of date-fns and is not escaped
DateFormats == {Unset, "dd-MM-yyyy", "MM-dd-yyyy", "dd-MM-yyyy n"}

InvalidDate == [t |-> "invalid"]
RangeError == [name |-> "RangeError", message |-> "unescaped latin alphabet character"]
IllegalArgumentException(message) ==
  [name |-> "IllegalArgumentException", message |-> message, code |-> 500]

\* the Date for month and day of 2023 in the zone, Invalid Date if there is
\* no such day
DateOf(month, day, timeZone) ==
  IF /\ month \in 1..12
     /\ day \in 1..(IF month = 2 THEN 28 ELSE IF month \in {4, 6, 9, 11} THEN 30 ELSE 31)
  THEN [t |-> "date", month |-> month, day |-> day, tz |-> timeZone]
  ELSE InvalidDate

\* parse(dateString, dateFormat, TZDate.tz(timeZone)) of date-fns: throws a
\* RangeError for a format with an unescaped letter that is no token, gives
\* Invalid Date when the string does not match the format or names no day
parse(dateString, dateFormat, timeZone) ==
  IF dateFormat = "dd-MM-yyyy n"
  THEN [threw |-> TRUE, exc |-> RangeError, date |-> InvalidDate]
  ELSE [ threw |-> FALSE, exc |-> NoExc,
         date |->
           IF dateFormat = ISO_8601_FORMAT /\ dateString.layout = "iso"
           THEN DateOf(dateString.a, dateString.b, timeZone)
           ELSE IF dateFormat = "dd-MM-yyyy" /\ dateString.layout = "dashes"
           THEN DateOf(dateString.b, dateString.a, timeZone)
           ELSE IF dateFormat = "MM-dd-yyyy" /\ dateString.layout = "dashes"
           THEN DateOf(dateString.a, dateString.b, timeZone)
           ELSE InvalidDate ]

\* isValid(date) of date-fns
isValid(date) == date.t = "date"

\* DateUtil.readDate(dateString, dateFormat = this.ISO_8601_FORMAT, timeZone)
readDate(dateString, dateFormat, timeZone) ==
  LET p == parse(dateString,
                 IF dateFormat = Unset THEN ISO_8601_FORMAT ELSE dateFormat,
                 timeZone)
  IN  IF p.threw
      THEN [threw |-> TRUE, exc |-> p.exc, ret |-> InvalidDate]
      ELSE IF ~isValid(p.date)
      THEN [ threw |-> TRUE,
             exc |-> IllegalArgumentException("Invalid date string or date format"),
             ret |-> InvalidDate ]
      ELSE [threw |-> FALSE, exc |-> NoExc, ret |-> p.date]

\* DateUtil.isValidDate(dateString, dateFormat)
isValidDate(dateString, dateFormat) ==
  LET r == readDate(dateString, dateFormat, "UTC")
  IN  [threw |-> FALSE, exc |-> NoExc, ret |-> ~r.threw]

(* ----------------------- JSONObject: getBoolean ----------------------- *)

JKeys == {"k1", "k2"}
\* the values stored: booleans, strings, a number
JBool(b) == [type |-> "boolean", v |-> b]
JString(str) == [type |-> "string", v |-> str]
JVals ==
  { JBool("true"), JBool("false"), JString("true"), JString("false"),
    JString("yes"), [type |-> "number", v |-> "1"] }
\* no entry for the key
JAbsent == [type |-> "absent", v |-> ""]

\* Boolean(value) of JavaScript: a string is true unless it is empty
Boolean(value) ==
  IF value.type = "boolean" THEN value.v = "true"
  ELSE IF value.type = "string" THEN value.v # ""
  ELSE value.v \notin {"0", "NaN"}

\* JSONObject.getBoolean(key) on the Map m
getBoolean(m, key) ==
  IF m[key] # JAbsent
  THEN IF m[key].type = "boolean"
       THEN [threw |-> FALSE, exc |-> NoExc, ret |-> m[key].v = "true"]
       ELSE IF m[key] = JString("true") \/ m[key] = JString("false")
       THEN [threw |-> FALSE, exc |-> NoExc, ret |-> Boolean(m[key])]
       ELSE [ threw |-> TRUE, ret |-> FALSE,
              exc |-> IllegalArgumentException("Value cannot be converted to boolean") ]
  ELSE [ threw |-> TRUE, ret |-> FALSE,
         exc |-> BaseException("Value for Key not found", Unset, Unset) ]

\* the smaller units at the start: an empty registry, an empty JSONObject,
\* no call made of DateUtil or getStackTrace
InitUtil ==
  /\ loggers = {}
  /\ rres = [op |-> "none"]
  /\ nreg = 0
  /\ dres = [op |-> "none"]
  /\ jmap = [k \in JKeys |-> JAbsent]
  /\ jres = [op |-> "none"]
  /\ tpc = "idle"
  /\ tcause = Undef
  /\ tout = <<>>

\* no object yet, nothing logged yet
InitSer ==
  /\ gkind = [n \in Nodes |-> "free"]
  /\ gcause = [n \in Nodes |-> Undef]
  /\ gx = [n \in Nodes |-> Undef]
  /\ nnode = 0
  /\ nedge = 0
  /\ out = [t |-> "none"]
  /\ prev = [t |-> "none"]

InitMDC ==
  /\ heap = [o \in ObjIds |-> EmptyMap]
  /\ kind = [o \in ObjIds |-> "free"]
  /\ nobj = 0
  /\ tstatus = [t \in TaskIds |-> "unborn"]
  /\ tstore = [t \in TaskIds |-> NoStore]
  /\ tchain = [t \in TaskIds |-> 0]
  /\ ntask = 0
  /\ cur = 0
  /\ frames = <<>>
  /\ nops = 0
  /\ threw = FALSE

(* --------------------------- the scheduler ---------------------------- *)

\* a new unit of work (an inbound request) starts while the scheduler is
\* idle: a continuation with no context and no ancestor in any other chain
NewChain ==
  /\ cur = 0
  /\ nops < MaxOps
  /\ nops' = nops + 1
  /\ LET t == ntask + 1 IN
       /\ ntask' = t
       /\ cur' = t
       /\ tstatus' = [tstatus EXCEPT ![t] = "running"]
       /\ tchain' = [tchain EXCEPT ![t] = t]
  /\ UNCHANGED <<heap, kind, nobj, tstore, frames, threw>>

\* the scheduler resumes a pending continuation
Start(t) ==
  /\ cur = 0
  /\ tstatus[t] = "pending"
  /\ cur' = t
  /\ tstatus' = [tstatus EXCEPT ![t] = "running"]
  /\ UNCHANGED <<heap, kind, nobj, tstore, tchain, ntask, frames, nops, threw>>

\* the running continuation ends (all its runWithContext calls have returned)
Finish ==
  /\ cur # 0
  /\ frames = <<>>
  /\ cur' = 0
  /\ tstatus' = [tstatus EXCEPT ![cur] = "done"]
  /\ tstore' = [tstore EXCEPT ![cur] = NoStore]
  /\ UNCHANGED <<heap, kind, nobj, tchain, ntask, frames, nops, threw>>

\* the running continuation creates a child continuation (a promise
\* reaction, a timer): the child inherits the store reference
Spawn ==
  /\ cur # 0
  /\ nops < MaxOps
  /\ nops' = nops + 1
  /\ LET t == ntask + 1 IN
       /\ ntask' = t
       /\ tstatus' = [tstatus EXCEPT ![t] = "pending"]
       /\ tchain' = [tchain EXCEPT ![t] = tchain[cur]]
       /\ tstore' = [tstore EXCEPT ![t] = tstore[cur]]
  /\ UNCHANGED <<heap, kind, nobj, cur, frames, threw>>

(* ------------------------- the MDC operations ------------------------- *)

\* get changes nothing: what it returns is MDCget on the current state
Get(k) ==
  /\ cur # 0
  /\ threw' = (MDCget(heap, tstore[cur], k) = TypeError)
  /\ UNCHANGED <<heap, kind, nobj, tstatus, tstore, tchain, ntask, cur, frames, nops>>

Put(k, v) ==
  /\ cur # 0
  /\ nops < MaxOps
  /\ nops' = nops + 1
  /\ LET s == tstore[cur]
         r == MDCput(heap, s, k, v, nobj + 1) IN
       /\ heap' = r.heap
       /\ tstore' = [tstore EXCEPT ![cur] = r.store]
       /\ nobj' = IF s = NoStore THEN nobj + 1 ELSE nobj
       /\ kind' = IF s = NoStore THEN [kind EXCEPT ![nobj + 1] = "internal"] ELSE kind
       /\ threw' = r.threw
  /\ UNCHANGED <<tstatus, tchain, ntask, cur, frames>>

\* putAll(context), context being the object c of heap h
PutAllObj(h, c) ==
  LET r == MDCputAll(h, tstore[cur], c) IN
    /\ heap' = r.heap
    /\ tstore' = [tstore EXCEPT ![cur] = r.store]
    /\ threw' = r.threw
    /\ nops' = nops + 1
    /\ UNCHANGED <<tstatus, tchain, ntask, cur, frames>>

\* putAll with a map object the caller already holds
PutAllHeld(c) ==
  /\ cur # 0
  /\ nops < MaxOps
  /\ kind[c] = "caller"
  /\ PutAllObj(heap, c)
  /\ UNCHANGED <<kind, nobj>>

\* putAll with a new object literal
PutAllNew(m) ==
  /\ cur # 0
  /\ nops < MaxOps
  /\ nobj' = nobj + 1
  /\ kind' = [kind EXCEPT ![nobj + 1] = "caller"]
  /\ PutAllObj([heap EXCEPT ![nobj + 1] = m], nobj + 1)

Clear ==
  /\ cur # 0
  /\ nops < MaxOps
  /\ LET r == MDCclear(heap, tstore[cur], nobj + 1) IN
       /\ heap' = r.heap
       /\ tstore' = [tstore EXCEPT ![cur] = r.store]
       /\ threw' = r.threw
  /\ nops' = nops + 1
  /\ nobj' = nobj + 1
  /\ kind' = [kind EXCEPT ![nobj + 1] = "internal"]
  /\ UNCHANGED <<tstatus, tchain, ntask, cur, frames>>

\* runWithContext(context, callback) is entered, context being the object c
RunEnterObj(h, c) ==
  /\ nops' = nops + 1
  /\ heap' = h
  /\ frames' = Append(frames, tstore[cur])
  /\ tstore' = [tstore EXCEPT ![cur] = RunStore(tstore[cur], c)]
  /\ UNCHANGED <<tstatus, tchain, ntask, cur, threw>>

RunEnterHeld(c) ==
  /\ cur # 0
  /\ nops < MaxOps
  /\ kind[c] = "caller"
  /\ RunEnterObj(heap, c)
  /\ UNCHANGED <<kind, nobj>>

RunEnterNew(m) ==
  /\ cur # 0
  /\ nops < MaxOps
  /\ nobj' = nobj + 1
  /\ kind' = [kind EXCEPT ![nobj + 1] = "caller"]
  /\ RunEnterObj([heap EXCEPT ![nobj + 1] = m], nobj + 1)

\* the callback of the innermost runWithContext returns or throws; either
\* way storage.run restores the store (threw: the callback's exception
\* leaves runWithContext)
RunExit(outcome) ==
  /\ cur # 0
  /\ frames # <<>>
  /\ tstore' = [tstore EXCEPT ![cur] = RestoreStore(tstore[cur], frames[Len(frames)])]
  /\ frames' = SubSeq(frames, 1, Len(frames) - 1)
  /\ UNCHANGED <<heap, kind, nobj, tstatus, tchain, ntask, cur, nops, threw>>

(* ------------------------------ History ------------------------------- *)
(* hist records facts about the past of the behaviour that the properties *)
(* speak of.  It is never read by the program's operations.               *)

(* --- history of the calls: what a runWithContext call found, what the  *)
(* --- last operation was given and changed                              *)

NoFrames == <<>>

InitCalls ==
  /\ InitMDC
  /\ InitSer
  /\ InitFac
  /\ InitProv
  /\ InitUtil
  /\ hist = [fs |-> NoFrames, last |-> [op |-> "none"]]

\* mark the innermost runWithContext call the running continuation is in
Mark(fs, wrote, didClear) ==
  [i \in 1..Len(fs) |->
     IF i = Len(fs)
     THEN [fs[i] EXCEPT !.wrote = @ \/ wrote, !.didClear = @ \/ didClear]
     ELSE fs[i]]

HCalls(op, k, v, c) ==
  /\ UNCHANGED <<serVars, facVars, provVars, utilVars>>
  /\ hist' =
    CASE op = "runEnter" ->
           [ fs   |-> Append(hist.fs, [snap |-> View(cur), wrote |-> FALSE, didClear |-> FALSE]),
             last |-> [op |-> op, arg |-> heap'[c]] ]
      [] op = "runExit" ->
           LET f == hist.fs[Len(hist.fs)] IN
           [ fs   |-> Mark(SubSeq(hist.fs, 1, Len(hist.fs) - 1), f.wrote, f.didClear),
             last |-> [op |-> op, snap |-> f.snap, wrote |-> f.wrote, didClear |-> f.didClear] ]
      [] op = "put" ->
           [ fs |-> Mark(hist.fs, TRUE, FALSE),
             \* shared: the put found a store that another continuation has too
             last |-> [op |-> op,
                       shared |-> /\ tstore[cur] # NoStore
                                  /\ \E t \in TaskIds \ {cur} :
                                       Live(t) /\ tstore[t] = tstore[cur]] ]
      [] op = "putAll" ->
           [ fs   |-> Mark(hist.fs, TRUE, FALSE),
             last |-> [op |-> op, before |-> View(cur), arg |-> heap'[c]] ]
      [] op = "clear" ->
           [ fs   |-> Mark(hist.fs, FALSE, TRUE),
             last |-> [op |-> op,
                       changed |-> { o \in ObjIds : heap'[o] # heap[o] },
                       kept    |-> (frames' = frames)] ]
      [] op = "get" ->
           [ fs |-> hist.fs, last |-> [op |-> op] ]
      [] OTHER ->
           [ fs |-> hist.fs, last |-> [op |-> "other"] ]

\* a step of the program, with the history it leaves: H(op, k, v, c) is given
\* the operation, the key and value of a get or put, and the map object of a
\* putAll or runWithContext
NextCalls ==
  \/ NewChain /\ HCalls("newChain", "", "", 0)
  \/ \E t \in TaskIds : Start(t) /\ HCalls("start", "", "", 0)
  \/ Finish /\ HCalls("finish", "", "", 0)
  \/ Spawn /\ HCalls("spawn", "", "", 0)
  \/ \E k \in Keys : Get(k) /\ HCalls("get", k, "", 0)
  \/ \E k \in Keys, v \in Vals : Put(k, v) /\ HCalls("put", k, v, 0)
  \/ \E c \in ObjIds : PutAllHeld(c) /\ HCalls("putAll", "", "", c)
  \/ \E m \in Literals : PutAllNew(m) /\ HCalls("putAll", "", "", nobj + 1)
  \/ Clear /\ HCalls("clear", "", "", 0)
  \/ \E c \in ObjIds : RunEnterHeld(c) /\ HCalls("runEnter", "", "", c)
  \/ \E m \in Literals : RunEnterNew(m) /\ HCalls("runEnter", "", "", nobj + 1)
  \/ \E o \in {"returned", "threw"} : RunExit(o) /\ HCalls("runExit", "", "", 0)

SpecCalls == InitCalls /\ [][NextCalls]_vars

(* --- history of the bindings: which chain made each binding, inside    *)
(* --- which runWithContext calls                                        *)

\* a binding of an object literal: made by no put or putAll
NoProv == [chain |-> 0, scope |-> {}]

InitLeak ==
  /\ InitMDC
  /\ InitSer
  /\ InitFac
  /\ InitProv
  /\ InitUtil
  /\ hist = [ prov   |-> [o \in ObjIds |-> [k \in Keys |-> NoProv]],
               tscope |-> [t \in TaskIds |-> {}],
               fcall  |-> <<>>,
               ncall  |-> 0 ]

\* the runWithContext calls the running continuation is inside, directly
\* or as a descendant continuation
CurScope == hist.tscope[cur] \cup { hist.fcall[i] : i \in 1..Len(hist.fcall) }

HLeak(op, k, v, c) ==
  LET me == [chain |-> tchain[cur], scope |-> CurScope] IN
  /\ UNCHANGED <<serVars, facVars, provVars, utilVars>>
  /\ hist' =
    CASE op = "put" ->
           IF tstore[cur] # NoStore /\ heap[tstore[cur]][k] = v THEN hist
           ELSE [hist EXCEPT !.prov[tstore'[cur]][k] = me]
      [] op = "putAll" ->
           IF tstore[cur] = NoStore THEN hist
           ELSE [hist EXCEPT !.prov[tstore[cur]] =
                   [j \in Keys |-> IF heap'[c][j] # Absent /\ heap'[c][j] # heap[tstore[cur]][j]
                                   THEN me ELSE @[j]]]
      [] op = "runEnter" ->
           [hist EXCEPT !.fcall = Append(@, hist.ncall + 1), !.ncall = @ + 1]
      [] op = "runExit" ->
           [hist EXCEPT !.fcall = SubSeq(@, 1, Len(@) - 1)]
      [] op = "spawn" ->
           [hist EXCEPT !.tscope[ntask'] = CurScope]
      [] op = "finish" ->
           [hist EXCEPT !.tscope[cur] = {}]
      [] OTHER -> hist

\* a step of the program, with the history it leaves: H(op, k, v, c) is given
\* the operation, the key and value of a get or put, and the map object of a
\* putAll or runWithContext
NextLeak ==
  \/ NewChain /\ HLeak("newChain", "", "", 0)
  \/ \E t \in TaskIds : Start(t) /\ HLeak("start", "", "", 0)
  \/ Finish /\ HLeak("finish", "", "", 0)
  \/ Spawn /\ HLeak("spawn", "", "", 0)
  \/ \E k \in Keys : Get(k) /\ HLeak("get", k, "", 0)
  \/ \E k \in Keys, v \in Vals : Put(k, v) /\ HLeak("put", k, v, 0)
  \/ \E c \in ObjIds : PutAllHeld(c) /\ HLeak("putAll", "", "", c)
  \/ \E m \in Literals : PutAllNew(m) /\ HLeak("putAll", "", "", nobj + 1)
  \/ Clear /\ HLeak("clear", "", "", 0)
  \/ \E c \in ObjIds : RunEnterHeld(c) /\ HLeak("runEnter", "", "", c)
  \/ \E m \in Literals : RunEnterNew(m) /\ HLeak("runEnter", "", "", nobj + 1)
  \/ \E o \in {"returned", "threw"} : RunExit(o) /\ HLeak("runExit", "", "", 0)

SpecLeak == InitLeak /\ [][NextLeak]_vars

(* --- history of one context: the puts made in it, whether it was       *)
(* --- cleared, the binding of a put that found no context               *)

InitSeq ==
  /\ InitMDC
  /\ InitSer
  /\ InitFac
  /\ InitProv
  /\ InitUtil
  /\ hist = [ puts     |-> EmptyMap,
               tcleared |-> [t \in TaskIds |-> FALSE],
               fflag    |-> <<>>,
               tfwd     |-> [t \in TaskIds |-> EmptyMap] ]

\* a put, putAll or clear of the running continuation ends what was known
\* of the contexts of its chain
Forget(f) == [t \in TaskIds |-> IF t \in SameChain(cur) THEN EmptyMap ELSE f[t]]
Unclear(f) == [t \in TaskIds |-> IF t \in SameChain(cur) THEN FALSE ELSE f[t]]

HSeq(op, k, v, c) ==
  /\ UNCHANGED <<serVars, facVars, provVars, utilVars>>
  /\ hist' =
    CASE op = "put" ->
           [ puts     |-> [hist.puts EXCEPT ![k] = v],
             tcleared |-> Unclear(hist.tcleared),
             fflag    |-> [i \in 1..Len(hist.fflag) |-> FALSE],
             tfwd     |-> IF tstore[cur] = NoStore
                          THEN [Forget(hist.tfwd) EXCEPT ![cur] = [EmptyMap EXCEPT ![k] = v]]
                          ELSE Forget(hist.tfwd) ]
      [] op = "putAll" ->
           [ puts     |-> EmptyMap,
             tcleared |-> Unclear(hist.tcleared),
             fflag    |-> [i \in 1..Len(hist.fflag) |-> FALSE],
             tfwd     |-> Forget(hist.tfwd) ]
      [] op = "clear" ->
           [ puts     |-> EmptyMap,
             tcleared |-> [hist.tcleared EXCEPT ![cur] = TRUE],
             fflag    |-> hist.fflag,
             tfwd     |-> Forget(hist.tfwd) ]
      [] op = "runEnter" ->
           [hist EXCEPT !.puts = EmptyMap,
                        !.fflag = Append(@, hist.tcleared[cur]),
                        !.tcleared[cur] = FALSE]
      [] op = "runExit" ->
           [hist EXCEPT !.puts = EmptyMap,
                        !.fflag = SubSeq(@, 1, Len(@) - 1),
                        !.tcleared[cur] = hist.fflag[Len(hist.fflag)]]
      [] op = "spawn" ->
           [hist EXCEPT !.tcleared[ntask'] = hist.tcleared[cur],
                        !.tfwd[ntask'] = IF frames = <<>> THEN hist.tfwd[cur] ELSE EmptyMap]
      [] op = "finish" ->
           [hist EXCEPT !.puts = EmptyMap, !.tcleared[cur] = FALSE, !.tfwd[cur] = EmptyMap]
      [] op = "get" -> hist
      [] OTHER -> [hist EXCEPT !.puts = EmptyMap]

\* a step of the program, with the history it leaves: H(op, k, v, c) is given
\* the operation, the key and value of a get or put, and the map object of a
\* putAll or runWithContext
NextSeq ==
  \/ NewChain /\ HSeq("newChain", "", "", 0)
  \/ \E t \in TaskIds : Start(t) /\ HSeq("start", "", "", 0)
  \/ Finish /\ HSeq("finish", "", "", 0)
  \/ Spawn /\ HSeq("spawn", "", "", 0)
  \/ \E k \in Keys : Get(k) /\ HSeq("get", k, "", 0)
  \/ \E k \in Keys, v \in Vals : Put(k, v) /\ HSeq("put", k, v, 0)
  \/ \E c \in ObjIds : PutAllHeld(c) /\ HSeq("putAll", "", "", c)
  \/ \E m \in Literals : PutAllNew(m) /\ HSeq("putAll", "", "", nobj + 1)
  \/ Clear /\ HSeq("clear", "", "", 0)
  \/ \E c \in ObjIds : RunEnterHeld(c) /\ HSeq("runEnter", "", "", c)
  \/ \E m \in Literals : RunEnterNew(m) /\ HSeq("runEnter", "", "", nobj + 1)
  \/ \E o \in {"returned", "threw"} : RunExit(o) /\ HSeq("runExit", "", "", 0)

SpecSeq == InitSeq /\ [][NextSeq]_vars

(* ===================== Part 2: ErrorFormat / serialize ================ *)

IsNode(v) == v \in Nodes
\* value instanceof Error
IsError(v) == IsNode(v) /\ gkind[v] = "error"

\* message, name and stack of the error object n
Message(n) == <<"message", n>>
Name(n) == <<"name", n>>
Stack(n) == <<"stack", n>>

\* output values: undefined, a primitive, the marker string, a reference to
\* an object of the input (the object itself, not a copy), or a new plain
\* object made from an error
SUndef == [t |-> "undefined"]
SPrim == [t |-> "primitive"]
SMade == [t |-> "made"]
Sentinel == [t |-> "[Circular Reference]"]
Ref(n) == [t |-> "ref", id |-> n]
\* the key is not in the object
NoKey == [t |-> "nokey"]

\* `return value`: the value itself leaves the function
PassThrough(v) ==
  IF v = Undef THEN SUndef
  ELSE IF v = Prim THEN SPrim
  ELSE IF v = Made THEN SMade
  ELSE Ref(v)

RECURSIVE serialize(_, _)

\* serialize that copies cause as it is, without descending into it
serialize_FlatCause(value, seen) ==
  IF value = Undef THEN [val |-> SUndef, seen |-> seen]
  ELSE IF IsError(value) THEN
    IF value \in seen THEN [val |-> Sentinel, seen |-> seen]
    ELSE
      LET seen1 == seen \cup {value}
          rx == IF gx[value] # Undef THEN serialize(gx[value], seen1)
                ELSE [val |-> NoKey, seen |-> seen1]
      IN  [ val  |-> [ t |-> "object", message |-> Message(value),
                       name |-> Name(value), stack |-> Stack(value),
                       cause |-> PassThrough(gcause[value]), x |-> rx.val ],
            seen |-> rx.seen ]
  ELSE [val |-> PassThrough(value), seen |-> seen]

\* serialize that leaves out the properties other than the four it names
serialize_NoExtra(value, seen) ==
  IF value = Undef THEN [val |-> SUndef, seen |-> seen]
  ELSE IF IsError(value) THEN
    IF value \in seen THEN [val |-> Sentinel, seen |-> seen]
    ELSE
      LET seen1 == seen \cup {value}
          c == gcause[value]
          rc == IF IsError(c) THEN serialize(c, seen1)
                ELSE [val |-> PassThrough(c), seen |-> seen1]
      IN  [ val  |-> [ t |-> "object", message |-> Message(value),
                       name |-> Name(value), stack |-> Stack(value),
                       cause |-> rc.val, x |-> NoKey ],
            seen |-> rc.seen ]
  ELSE [val |-> PassThrough(value), seen |-> seen]

\* serialize(value, seen).  seen is one WeakSet shared by the whole walk:
\* the operator returns it with the value.
serialize(value, seen) ==
  IF value = Undef THEN [val |-> SUndef, seen |-> seen]
  ELSE IF IsError(value) THEN
    IF value \in seen THEN [val |-> Sentinel, seen |-> seen]
    ELSE
      LET seen1 == seen \cup {value}
          c == gcause[value]
          rc == IF IsError(c) THEN serialize(c, seen1)
                ELSE [val |-> PassThrough(c), seen |-> seen1]
          \* Object.keys(value): cause is already a key of serialized
          rx == IF gx[value] # Undef THEN serialize(gx[value], rc.seen)
                ELSE [val |-> NoKey, seen |-> rc.seen]
      IN  [ val  |-> [ t |-> "object", message |-> Message(value),
                       name |-> Name(value), stack |-> Stack(value),
                       cause |-> rc.val, x |-> rx.val ],
            seen |-> rx.seen ]
  ELSE [val |-> PassThrough(value), seen |-> seen]

\* `new WeakSet<object>()`: each call of the format starts with an empty set,
\* whatever the set of the call before (old) holds
NewSeen_Shared(old) == old
NewSeen(old) == {}

\* the set the call before left behind
LastSeen == IF out.t = "none" THEN {} ELSE out.seen

\* ErrorFormat(info), info being the object r.  An error is serialized and
\* its message, stack, cause and other keys are set from the result; the
\* keys of any other record are serialized one after the other, in the
\* order of Object.keys (cause, then x), with one seen set.  The result is
\* info with these properties; call numbers the calls, was keeps the two
\* properties of info that the call overwrote.
ErrorFormat(r) ==
  LET call == IF out.t = "none" THEN 1 ELSE out.call + 1 IN
  IF IsError(r) THEN
    LET s == serialize(r, NewSeen(LastSeen)) IN
      IF s.val.t = "object"
      THEN [ t |-> "error", id |-> r, call |-> call, serialized |-> s.val,
             cause |-> s.val.cause, x |-> s.val.x, seen |-> s.seen,
             was |-> [cause |-> gcause[r], x |-> gx[r]] ]
      \* serialized is the marker string: its properties are undefined
      ELSE [ t |-> "error", id |-> r, call |-> call, serialized |-> s.val,
             cause |-> SUndef, x |-> NoKey, seen |-> s.seen,
             was |-> [cause |-> gcause[r], x |-> gx[r]] ]
  ELSE
    LET rc == IF gcause[r] # Undef THEN serialize(gcause[r], NewSeen(LastSeen))
              ELSE [val |-> NoKey, seen |-> NewSeen(LastSeen)]
        rx == IF gx[r] # Undef THEN serialize(gx[r], rc.seen)
              ELSE [val |-> NoKey, seen |-> rc.seen]
    IN  [ t |-> "record", id |-> r, call |-> call,
          cause |-> rc.val, x |-> rx.val, seen |-> rx.seen,
          was |-> [cause |-> gcause[r], x |-> gx[r]] ]

\* what the format leaves in a property of info that held v: the serialized
\* object (or the marker) where v was an error, v itself otherwise
Stored(v) == IF IsError(v) THEN Made ELSE v

Building == out.t = "none"

\* the application creates an error (new Error(message)) or a plain object
NewNode(k) ==
  /\ Building
  /\ nnode < MaxNodes
  /\ nnode' = nnode + 1
  /\ gkind' = [gkind EXCEPT ![nnode + 1] = k]
  /\ UNCHANGED <<gcause, gx, nedge, out, prev>>

\* the application sets the cause of an object (new Error(m, {cause: v}),
\* new BaseException(m, v), e.cause = v)
SetCause(n, v) ==
  /\ Building
  /\ nedge < MaxEdges
  /\ n \in 1..nnode
  /\ v \in (1..nnode) \cup {Prim}
  /\ gcause[n] = Undef
  /\ gcause' = [gcause EXCEPT ![n] = v]
  /\ nedge' = nedge + 1
  /\ UNCHANGED <<gkind, gx, nnode, out, prev>>

\* the application sets another enumerable property (e.code, e.details)
SetX(n, v) ==
  /\ Building
  /\ nedge < MaxEdges
  /\ n \in 1..nnode
  /\ v \in (1..nnode) \cup {Prim}
  /\ gx[n] = Undef
  /\ gx' = [gx EXCEPT ![n] = v]
  /\ nedge' = nedge + 1
  /\ UNCHANGED <<gkind, gcause, nnode, out, prev>>

\* a record is logged: the format runs on it
Format(r) ==
  /\ prev.t = "none"
  /\ r \in 1..nnode
  /\ out' = ErrorFormat(r)
  /\ prev' = out
  /\ gcause' = [gcause EXCEPT ![r] = Stored(gcause[r])]
  /\ gx' = [gx EXCEPT ![r] = Stored(gx[r])]
  /\ UNCHANGED <<gkind, nnode, nedge>>

NextSer ==
  \/ \E k \in {"error", "plain"} : NewNode(k) /\ UNCHANGED <<mdcVars, hist, facVars, provVars, utilVars>>
  \/ \E n \in Nodes, v \in Nodes \cup {Prim} : SetCause(n, v) /\ UNCHANGED <<mdcVars, hist, facVars, provVars, utilVars>>
  \/ \E n \in Nodes, v \in Nodes \cup {Prim} : SetX(n, v) /\ UNCHANGED <<mdcVars, hist, facVars, provVars, utilVars>>
  \/ \E r \in Nodes : Format(r) /\ UNCHANGED <<mdcVars, hist, facVars, provVars, utilVars>>

InitSerialize == InitSer /\ InitMDC /\ InitFac /\ InitProv /\ InitUtil /\ hist = <<>>

SpecSerialize == InitSerialize /\ [][NextSer]_vars

\* the properties of n as the last call of the format found them (the call
\* overwrote those of its record)
CauseAt(n) == IF out.t # "none" /\ n = out.id THEN out.was.cause ELSE gcause[n]
XAt(n) == IF out.t # "none" /\ n = out.id THEN out.was.x ELSE gx[n]

\* the error chain that starts at n: n, its cause, the cause of that, ... as
\* long as the cause is an error not met before; acyclic says whether the
\* walk ended at a cause that is not an error
RECURSIVE ChainFrom(_, _)
ChainFrom(n, sofar) ==
  IF ~IsError(n) THEN [chain |-> sofar, acyclic |-> TRUE]
  ELSE IF \E i \in 1..Len(sofar) : sofar[i] = n THEN [chain |-> sofar, acyclic |-> FALSE]
  ELSE ChainFrom(CauseAt(n), Append(sofar, n))

\* the i-th nested level of cause of an output value (level 1 is the value)
RECURSIVE Level(_, _)
Level(sv, i) ==
  IF i = 1 THEN sv
  ELSE IF sv.t = "object" THEN Level(sv.cause, i - 1)
  ELSE NoKey

\* what serialize makes of an acyclic chain ch: one plain object per error,
\* nested through cause, with the attributes of the error at each depth,
\* and below the last one something that is not a serialized error
MatchesChain(sv, ch) ==
  /\ \A i \in 1..Len(ch) :
       LET l == Level(sv, i) IN
         /\ l.t = "object"
         /\ l.message = Message(ch[i])
         /\ l.name = Name(ch[i])
         /\ l.stack = Stack(ch[i])
  /\ Level(sv, Len(ch) + 1).t \notin {"object", "[Circular Reference]"}

\* the objects one property away from n, and all those reachable from n
Succ(n) == {CauseAt(n), XAt(n)} \cap Nodes
RECURSIVE ReachFrom(_, _)
ReachFrom(front, found) ==
  LET new == (UNION {Succ(n) : n \in front}) \ found IN
    IF new = {} THEN found ELSE ReachFrom(new, found \cup new)
Reach(n) == ReachFrom({n}, {})
\* n is on a cycle of the input graph
OnCycle(n) == n \in Reach(n)

\* the objects of the input that an output value holds (by reference)
RECURSIVE RefsOf(_)
RefsOf(sv) ==
  IF sv.t = "ref" THEN {sv.id}
  ELSE IF sv.t = "object" THEN RefsOf(sv.cause) \cup RefsOf(sv.x)
  ELSE {}
\* whether an output value holds the marker string
RECURSIVE HasSentinel(_)
HasSentinel(sv) ==
  IF sv.t = "object" THEN HasSentinel(sv.cause) \/ HasSentinel(sv.x)
  ELSE sv = Sentinel
\* the same for the record the format returned
OutRefs == RefsOf(out.cause) \cup RefsOf(out.x)
OutHasSentinel == HasSentinel(out.cause) \/ HasSentinel(out.x)
Formatted == out.t \in {"error", "record"}


(* =================== Part 3: the calls of LoggerFactory =============== *)

\* the application calls LoggerFactory.createLogger(options)
CreateLogger(options, fail) ==
  /\ ncall < MaxCalls
  /\ ncall' = ncall + 1
  /\ LET id == nlog + 1
         r == createLogger(flogger, id, options, fail)
     IN  /\ flogger' = r.logger
         /\ lstat' = [lstat EXCEPT ![id] = r.stat]
         /\ lconf' = [lconf EXCEPT ![id] = r.conf]
         /\ nlog' = IF r.stat = "none" THEN nlog ELSE id
         /\ fres' = [ op |-> "createLogger", before |-> flogger, nlog |-> nlog,
                      fail |-> fail, threw |-> r.threw, exc |-> r.exc,
                      ret |-> r.ret, h |-> 0 ]
  /\ UNCHANGED <<hbase, hlabel, nh, pend, rec>>

\* the application calls LoggerFactory.getLogger(label)
GetLogger(label, fail) ==
  /\ ncall < MaxCalls
  /\ ncall' = ncall + 1
  /\ LET id == nlog + 1
         r == getLogger(flogger, id, label, fail)
     IN  /\ flogger' = r.logger
         /\ IF r.stat = "none"
            THEN UNCHANGED <<lstat, lconf, nlog>>
            ELSE /\ lstat' = [lstat EXCEPT ![id] = r.stat]
                 /\ lconf' = [lconf EXCEPT ![id] = r.conf]
                 /\ nlog' = id
         /\ IF r.threw
            THEN UNCHANGED <<hbase, hlabel, nh>>
            ELSE /\ hbase' = [hbase EXCEPT ![nh + 1] = r.child.base]
                 /\ hlabel' = [hlabel EXCEPT ![nh + 1] = r.child.label]
                 /\ nh' = nh + 1
         /\ fres' = [ op |-> "getLogger", before |-> flogger, nlog |-> nlog,
                      fail |-> fail, threw |-> r.threw, exc |-> r.exc,
                      ret |-> r.ret, h |-> IF r.threw THEN 0 ELSE nh + 1 ]
  /\ UNCHANGED <<pend, rec>>

\* a log call is made through a handle; at is the base logger of the factory
\* when the call starts, n numbers the calls
LogStart(h, level) ==
  /\ h \in 1..nh
  /\ ncall < MaxCalls
  /\ ncall' = ncall + 1
  /\ pend' = pend \cup {[h |-> h, level |-> level, at |-> flogger, n |-> ncall + 1]}
  /\ UNCHANGED <<flogger, lstat, lconf, nlog, hbase, hlabel, nh, fres, rec>>

\* a log call that had started is processed and its record reaches the sinks
LogDone(c) ==
  /\ c \in pend
  /\ pend' = pend \ {c}
  /\ rec' = [call |-> c, out |-> Emit(c.h, c.level)]
  /\ UNCHANGED <<flogger, lstat, lconf, nlog, hbase, hlabel, nh, fres, ncall>>

\* history: whether a base logger was ever installed, and the label each
\* handle was asked for
InitFactory ==
  /\ InitMDC
  /\ InitSer
  /\ InitFac
  /\ InitProv
  /\ InitUtil
  /\ hist = [ever |-> FALSE, asked |-> [h \in HandleIds |-> Unset]]

NextFactory ==
  \/ \E o \in OptionsIn, f \in FailAt :
       /\ CreateLogger(o, f)
       /\ hist' = [hist EXCEPT !.ever = @ \/ flogger' # NoLogger]
       /\ UNCHANGED <<mdcVars, serVars, provVars, utilVars>>
  \/ \E l \in Labels, f \in FailAt :
       /\ GetLogger(l, f)
       /\ hist' = [hist EXCEPT !.ever = @ \/ flogger' # NoLogger,
                               !.asked = IF nh' = nh THEN @
                                         ELSE [@ EXCEPT ![nh'] = l]]
       /\ UNCHANGED <<mdcVars, serVars, provVars, utilVars>>
  \/ \E h \in HandleIds, l \in CallLevels :
       /\ LogStart(h, l)
       /\ UNCHANGED <<mdcVars, serVars, hist, provVars, utilVars>>
  \/ \E c \in pend :
       /\ LogDone(c)
       /\ UNCHANGED <<mdcVars, serVars, hist, provVars, utilVars>>

SpecFactory == InitFactory /\ [][NextFactory]_vars

(* ================ Part 4: log calls with the MDC fields ============== *)

\* a continuation makes a log call through the provider's logger: the format
\* (addMdcDataFormat, timestamp, json) runs in the call, in that continuation
Log ==
  /\ cur # 0
  /\ LET f == addMdcDataFormat(heap, tstore[cur]) IN
       prec' = [ t |-> "record", path |-> f.path,
                 transaction_id |-> f.transaction_id, timestamp |-> TRUE ]
  /\ UNCHANGED mdcVars

\* history of the units of work: the map given to the innermost
\* runWithContext call each continuation is in (ent; stack keeps those of the
\* enclosing calls of the running continuation), whether a put, putAll or
\* clear was ever made (writes), and for the last log call what MDC.get
\* returned in its continuation (view) and, as long as no write was made,
\* the map of its continuation (want)
InitProvider ==
  /\ InitMDC
  /\ InitSer
  /\ InitFac
  /\ InitProv
  /\ InitUtil
  /\ hist = [ ent |-> [t \in TaskIds |-> EmptyMap], stack |-> <<>>,
              writes |-> FALSE,
              last |-> [want |-> EmptyMap, view |-> EmptyMap] ]

HProvider(op, c) ==
  /\ UNCHANGED <<serVars, facVars, utilVars>>
  /\ IF op = "log" THEN TRUE ELSE UNCHANGED provVars
  /\ hist' =
    CASE op = "log" ->
           [hist EXCEPT !.last = [want |-> hist.ent[cur], view |-> View(cur)]]
      \* after a write the maps of the units are no longer followed
      [] op = "write" \/ hist.writes ->
           [hist EXCEPT !.ent = [t \in TaskIds |-> EmptyMap],
                        !.stack = <<>>, !.writes = TRUE]
      [] op = "newChain" -> [hist EXCEPT !.ent[cur'] = EmptyMap]
      [] op = "spawn" -> [hist EXCEPT !.ent[ntask'] = hist.ent[cur]]
      [] op = "runEnter" ->
           [hist EXCEPT !.ent[cur] = heap'[c],
                        !.stack = Append(@, hist.ent[cur])]
      [] op = "runExit" ->
           [hist EXCEPT !.ent[cur] = hist.stack[Len(hist.stack)],
                        !.stack = SubSeq(@, 1, Len(@) - 1)]
      [] OTHER -> hist

NextProvider ==
  \/ NewChain /\ HProvider("newChain", 0)
  \/ \E t \in TaskIds : Start(t) /\ HProvider("start", 0)
  \/ Finish /\ HProvider("finish", 0)
  \/ Spawn /\ HProvider("spawn", 0)
  \/ \E k \in Keys, v \in Vals : Put(k, v) /\ HProvider("write", 0)
  \/ \E c \in ObjIds : PutAllHeld(c) /\ HProvider("write", c)
  \/ \E m \in Literals : PutAllNew(m) /\ HProvider("write", nobj + 1)
  \/ Clear /\ HProvider("write", 0)
  \/ \E c \in ObjIds : RunEnterHeld(c) /\ HProvider("runEnter", c)
  \/ \E m \in Literals : RunEnterNew(m) /\ HProvider("runEnter", nobj + 1)
  \/ \E o \in {"returned", "threw"} : RunExit(o) /\ HProvider("runExit", 0)
  \/ Log /\ HProvider("log", 0)

SpecProvider == InitProvider /\ [][NextProvider]_vars

(* ===================== Part 5: the logger registry ==================== *)

\* the application calls the registry's createLogger(name, level, format);
\* level and format may be left out (Unset)
RegistryCreate(name, level, format, fail) ==
  /\ nreg < MaxRegCalls
  /\ nreg' = nreg + 1
  /\ LET r == registryCreateLogger(loggers, nreg + 1, name, level, format, fail) IN
       /\ loggers' = r.loggers
       /\ rres' = [ op |-> "createLogger", name |-> name, level |-> level,
                    format |-> format, before |-> loggers,
                    threw |-> r.threw, ret |-> r.ret, exc |-> r.exc ]

NextRegistry ==
  \E n \in Names, l \in {Unset, "debug"}, f \in {Unset, "custom"},
     fail \in {"none", "createLogger"} :
    /\ RegistryCreate(n, l, f, fail)
    /\ UNCHANGED <<mdcVars, hist, serVars, facVars, provVars, dateVars, jsonVars, traceVars>>

\* the start of the specifications of the smaller units
InitUnits ==
  /\ InitMDC
  /\ InitSer
  /\ InitFac
  /\ InitProv
  /\ InitUtil
  /\ hist = <<>>

SpecRegistry == InitUnits /\ [][NextRegistry]_vars

(* ========================= Part 5: DateUtil =========================== *)

ReadDate(s, f, tz) ==
  LET r == readDate(s, f, tz) IN
    dres' = [ op |-> "readDate", s |-> s, f |-> f, tz |-> tz,
              threw |-> r.threw, exc |-> r.exc, ret |-> r.ret ]

IsValidDate(s, f) ==
  LET r == isValidDate(s, f) IN
    dres' = [ op |-> "isValidDate", s |-> s, f |-> f, tz |-> "UTC",
              threw |-> r.threw, exc |-> r.exc, ret |-> r.ret ]

NextDate ==
  \/ \E s \in DateStrings, f \in DateFormats, tz \in {"UTC", "Asia/Kolkata"} :
       /\ ReadDate(s, f, tz)
       /\ UNCHANGED <<mdcVars, hist, serVars, facVars, provVars, regVars, jsonVars, traceVars>>
  \/ \E s \in DateStrings, f \in DateFormats :
       /\ IsValidDate(s, f)
       /\ UNCHANGED <<mdcVars, hist, serVars, facVars, provVars, regVars, jsonVars, traceVars>>

SpecDate == InitUnits /\ [][NextDate]_vars

(* ======================== Part 5: JSONObject ========================== *)

\* Map.set(key, value), inherited
JsonSet(key, value) ==
  /\ jmap' = [jmap EXCEPT ![key] = value]
  /\ jres' = [op |-> "set"]

\* getBoolean(key): reads the Map, writes nothing
JsonGetBoolean(key) ==
  LET r == getBoolean(jmap, key) IN
    /\ jres' = [ op |-> "getBoolean", key |-> key, before |-> jmap,
                 threw |-> r.threw, exc |-> r.exc, ret |-> r.ret ]
    /\ UNCHANGED jmap

NextJson ==
  \/ \E k \in JKeys, v \in JVals :
       /\ JsonSet(k, v)
       /\ UNCHANGED <<mdcVars, hist, serVars, facVars, provVars, regVars, dateVars, traceVars>>
  \/ \E k \in JKeys :
       /\ JsonGetBoolean(k)
       /\ UNCHANGED <<mdcVars, hist, serVars, facVars, provVars, regVars, dateVars, traceVars>>

SpecJson == InitUnits /\ [][NextJson]_vars

(* =================== Part 5: BaseException.getStackTrace ============== *)

\* The exceptions and their causes are the objects of Part 2: an exception
\* is an error object, its cause the property cause. getStackTrace runs
\* without interruption, so no object changes while it is in its loop.

\* the entries kept of stackTrace: one more than there are objects, so that
\* an entry added twice can be told; later entries are not recorded
MaxEntries == MaxNodes + 1
AddEntry(entries, e) == IF Len(entries) < MaxEntries THEN Append(entries, e) ELSE entries

\* getStackTrace() is called on the exception r: the header line, and
\* currentCause = this.cause
TraceStart(r) ==
  /\ tpc = "idle"
  /\ IsError(r)
  /\ tpc' = "loop"
  /\ tcause' = gcause[r]
  /\ tout' = <<>>
  /\ hist' = [root |-> r, turn |-> 0]
  /\ UNCHANGED <<mdcVars, serVars, facVars, provVars, regVars, dateVars, jsonVars>>

\* one turn of while (currentCause): an error adds its stack and hands over
\* its cause, anything else adds String(currentCause) and ends the chain;
\* hist.turn tells a turn of the loop from no step at all
TraceStep ==
  /\ tpc = "loop"
  /\ tcause # Undef
  /\ tout' = AddEntry(tout, tcause)
  /\ tcause' = IF IsError(tcause) THEN gcause[tcause] ELSE Undef
  /\ hist' = [hist EXCEPT !.turn = 1 - @]
  /\ UNCHANGED tpc
  /\ UNCHANGED <<mdcVars, serVars, facVars, provVars, regVars, dateVars, jsonVars>>

\* currentCause is undefined: return stackTrace
TraceReturn ==
  /\ tpc = "loop"
  /\ tcause = Undef
  /\ tpc' = "done"
  /\ UNCHANGED <<tcause, tout, hist>>
  /\ UNCHANGED <<mdcVars, serVars, facVars, provVars, regVars, dateVars, jsonVars>>

NextTrace ==
  \/ \E k \in {"error", "plain"} :
       /\ tpc = "idle"
       /\ NewNode(k)
       /\ UNCHANGED <<mdcVars, hist, facVars, provVars, utilVars>>
  \/ \E n \in Nodes, v \in Nodes \cup {Prim} :
       /\ tpc = "idle"
       /\ SetCause(n, v)
       /\ UNCHANGED <<mdcVars, hist, facVars, provVars, utilVars>>
  \/ \E r \in Nodes : TraceStart(r)
  \/ TraceStep
  \/ TraceReturn

InitStackTrace ==
  /\ InitMDC
  /\ InitSer
  /\ InitFac
  /\ InitProv
  /\ InitUtil
  /\ hist = [root |-> 0, turn |-> 0]

\* a call that has started keeps running: the loop takes its next turn, and
\* the method returns once the loop has ended
SpecTrace ==
  /\ InitStackTrace
  /\ [][NextTrace]_vars
  /\ WF_vars(TraceStep)
  /\ WF_vars(TraceReturn)

\* the causes of an exception down to the first that is not an error, the
\* outermost first; fuel bounds the walk
RECURSIVE CauseChain(_, _)
CauseChain(v, fuel) ==
  IF v = Undef \/ fuel = 0 THEN <<>>
  ELSE IF IsError(v) THEN <<v>> \o CauseChain(gcause[v], fuel - 1)
  ELSE <<v>>

\* no error is, directly or through other errors, its own cause
AcyclicFrom(r) ==
  LET c == <<r>> \o CauseChain(gcause[r], MaxEntries)
  IN  \A i, k \in 1..Len(c) : (c[i] = c[k] /\ IsNode(c[i])) => i = k

(* ============================== Claims ================================ *)

(* C1 (as claimed): runWithContext(m, body) runs body with get(k) = m[k]  *)
(* for every key of m, and when body has returned or thrown, get in the   *)
(* caller returns for every key what it returned just before the call.    *)
C1_RunWithContextRestores ==
  /\ hist.last.op = "runEnter" =>
       \A k \in Keys : hist.last.arg[k] # Absent =>
                         MDCget(heap, tstore[cur], k) = hist.last.arg[k]
  /\ hist.last.op = "runExit" => View(cur) = hist.last.snap

(* C2 (as claimed): what get returns in a continuation was never bound by *)
(* a put or putAll of another chain.                                      *)
C2_ChainsIndependent ==
  cur # 0 =>
    \A k \in Keys :
      MDCget(heap, tstore[cur], k) # Absent =>
        hist.prov[tstore[cur]][k].chain \in {0, tchain[cur]}

(* C3 (as claimed): a binding made by put or putAll inside a              *)
(* runWithContext call is returned by get only in continuations that are  *)
(* inside that call.                                                      *)
C3_BindingStaysInCall ==
  cur # 0 =>
    \A k \in Keys :
      MDCget(heap, tstore[cur], k) # Absent =>
        hist.prov[tstore[cur]][k].scope \subseteq CurScope

(* C4 (as claimed): after putAll(m), get returns m[k] for every key of m  *)
(* and the value bound before for every other key.                        *)
C4_PutAllMerges ==
  hist.last.op = "putAll" =>
    \A k \in Keys :
      MDCget(heap, tstore[cur], k) =
        IF hist.last.arg[k] # Absent THEN hist.last.arg[k] ELSE hist.last.before[k]

(* C5: after a sequence of puts in one continuation and one context, get  *)
(* returns for every key written the value of the last put for it.        *)
C5_PutsReadable ==
  cur # 0 =>
    \A k \in Keys :
      hist.puts[k] # Absent => MDCget(heap, tstore[cur], k) = hist.puts[k]

\* two keys were put one after the other
C5_Witness ==
  /\ cur # 0
  /\ hist.puts["a"] = "1"
  /\ hist.puts["b"] = "2"

(* C6: after clear, get returns absent for every key, in the continuation *)
(* and in those it spawns, until the next put or putAll of the chain.     *)
C6_ClearedReadsAbsent ==
  \A t \in TaskIds :
    (Live(t) /\ hist.tcleared[t]) =>
      \A k \in Keys : MDCget(heap, tstore[t], k) = Absent

\* a continuation cleared its context after a put had bound "a" in it
C6_Witness ==
  /\ cur # 0
  /\ hist.tcleared[cur]
  /\ \E o \in ObjIds : /\ kind[o] = "internal"
                       /\ o # tstore[cur]
                       /\ heap[o]["a"] = "1"

C8_PutEntersForward ==
  \A t \in TaskIds :
    (Live(t) /\ hist.tfwd[t] # EmptyMap) =>
      /\ BaseStore(t) # NoStore
      /\ kind[BaseStore(t)] = "internal"
      /\ \A k \in Keys :
           hist.tfwd[t][k] # Absent => MDCget(heap, BaseStore(t), k) = hist.tfwd[t][k]

\* a child continuation spawned after the put waits to run, its parent done
C8_Witness ==
  \E t \in TaskIds :
    /\ tstatus[t] = "pending"
    /\ hist.tfwd[t] # EmptyMap
    /\ cur = 0

C10_ChainPreserved ==
  /\ out.t = "error" =>
       LET c == ChainFrom(out.id, <<>>) IN
         c.acyclic => MatchesChain(out.serialized, c.chain)
  /\ (out.t = "record" /\ IsError(CauseAt(out.id))) =>
       LET c == ChainFrom(CauseAt(out.id), <<>>) IN
         c.acyclic => MatchesChain(out.cause, c.chain)

\* an error with a chain of three errors was logged
C10_Witness ==
  /\ out.t = "error"
  /\ ChainFrom(out.id, <<>>).acyclic
  /\ Len(ChainFrom(out.id, <<>>).chain) = 3

(* C11 (as claimed): when the logged object reaches a cycle, of errors or *)
(* of plain objects, the output holds the marker where the cycle repeats  *)
(* and holds no object that is on a cycle or leads to one.                *)
C11_CyclesCut ==
  Formatted =>
    /\ (\E m \in {out.id} \cup Reach(out.id) : OnCycle(m)) => OutHasSentinel
    /\ \A n \in OutRefs : \A m \in {n} \cup Reach(n) : ~OnCycle(m)

(* C12: the visited set lasts one call of the format.  When two calls on  *)
(* two records find the same error in the first property they serialize,  *)
(* each output is a serialized object with the attributes of the error,   *)
(* neither is the marker, and the two objects are made by different       *)
(* calls.                                                                 *)
FirstError(o) ==
  IF o.t # "record" THEN Undef
  ELSE IF o.was.cause # Undef THEN (IF IsError(o.was.cause) THEN o.was.cause ELSE Undef)
  ELSE IF IsError(o.was.x) THEN o.was.x ELSE Undef
FirstOutput(o) == IF o.was.cause # Undef THEN o.cause ELSE o.x

C12_SeenPerCall ==
  (/\ prev.t = "record" /\ out.t = "record"
   /\ prev.id # out.id
   /\ FirstError(prev) # Undef
   /\ FirstError(prev) = FirstError(out)) =>
     /\ \A o \in {prev, out} :
          /\ FirstOutput(o).t = "object"
          /\ FirstOutput(o).message = Message(FirstError(o))
          /\ FirstOutput(o).name = Name(FirstError(o))
          /\ FirstOutput(o).stack = Stack(FirstError(o))
     /\ prev.call # out.call

\* two records holding the same error were logged one after the other
C12_Witness ==
  /\ prev.t = "record" /\ out.t = "record"
  /\ prev.id # out.id
  /\ IsError(prev.was.cause)
  /\ prev.was.cause = out.was.cause

(* C13 (as claimed): the values serialize returns hold no object of the   *)
(* input graph.                                                           *)
C13_NoSharedIdentity ==
  Formatted => OutRefs = {}

(* C14 (as claimed): the record the format returns holds, at any depth,   *)
(* no Error object and no object that is on a cycle.                      *)
C14_RecordFullySerialized ==
  out.t = "record" =>
    \A n \in OutRefs : \A m \in {n} \cup Reach(n) : ~IsError(m) /\ ~OnCycle(m)

(* C15: a createLogger call that throws, throws a BaseException whose     *)
(* cause is the error thrown during construction, and leaves the static   *)
(* field as it was before the call.                                       *)
C15_FailedCreateKeepsLogger ==
  (fres.op = "createLogger" /\ fres.threw) =>
    /\ fres.exc.name = "BaseException"
    /\ fres.exc.cause = Thrown(fres.fail)
    /\ flogger = fres.before

\* a createLogger call failed while a base logger was installed
C15_Witness ==
  /\ fres.op = "createLogger"
  /\ fres.threw
  /\ fres.before # NoLogger

(* C16: once a base logger has been installed the static field is never   *)
(* undefined again; it is set by the first call that succeeds; and it     *)
(* never holds a logger whose construction did not finish.                *)
C16_InitializedForGood ==
  /\ hist.ever => flogger # NoLogger
  /\ (fres.op # "none" /\ ~fres.threw) => flogger # NoLogger
  /\ flogger # NoLogger => lstat[flogger] = "built"

\* a construction failed half way after a base logger had been installed
C16_Witness ==
  /\ hist.ever
  /\ fres.threw
  /\ \E l \in LoggerIds : lstat[l] = "partial"

(* C17: getLogger with no base logger builds one with the default options *)
(* (level info, console transport), installs it and returns a child of    *)
(* it; getLogger with a base logger builds none, leaves the static field  *)
(* alone and returns a child of that base logger.                         *)
C17_GetLoggerLazy ==
  (fres.op = "getLogger" /\ ~fres.threw) =>
    /\ fres.before = NoLogger =>
         /\ flogger = fres.nlog + 1
         /\ lstat[flogger] = "built"
         /\ lconf[flogger] = [level |-> "info", format |-> defaultFormat,
                              transports |-> <<"Console">>]
    /\ fres.before # NoLogger =>
         /\ nlog = fres.nlog
         /\ flogger = fres.before
    /\ hbase[fres.h] = flogger

\* getLogger built the base logger, and a second getLogger found it
C17_Witness ==
  /\ fres.op = "getLogger"
  /\ ~fres.threw
  /\ fres.before # NoLogger
  /\ nlog = 1
  /\ nh = 2
  /\ lconf[flogger].level = "info"

C19_NewConfigForLaterCalls ==
  rec.out.t \in {"record", "dropped"} => rec.out.by = rec.call.at

(* C20: a record of the provider's logger carries as path and             *)
(* transaction_id what MDC.get returned for the two keys in the           *)
(* continuation that made the log call, when it made it; and when the     *)
(* units of work only enter runWithContext and log, each record carries   *)
(* the path and transaction id of the map of the runWithContext call its  *)
(* continuation is in, whatever the interleaving.                         *)
C20_RecordCarriesOwnContext ==
  prec.t = "record" =>
    /\ prec.path = hist.last.view[PathKey]
    /\ prec.transaction_id = hist.last.view[TransactionKey]
    /\ ~hist.writes =>
         /\ prec.path = hist.last.want[PathKey]
         /\ prec.transaction_id = hist.last.want[TransactionKey]

\* a continuation inside one runWithContext call logged while a continuation
\* of another chain, inside a call with another transaction id, was waiting
C20_Witness ==
  /\ prec.t = "record"
  /\ ~hist.writes
  /\ cur # 0
  /\ hist.ent[cur] = hist.last.want
  /\ hist.last.want # EmptyMap
  /\ \E u \in TaskIds :
       /\ tstatus[u] = "pending"
       /\ tchain[u] # tchain[cur]
       /\ hist.ent[u] # EmptyMap
       /\ hist.ent[u][TransactionKey] # hist.last.want[TransactionKey]

(* C21 (as claimed): a record that reaches the sinks of a logger built by *)
(* LoggerFactory.createLogger went through a timestamp step, a step that  *)
(* adds the MDC fields, the error serialization and the JSON step.        *)
C21_AllFourSteps ==
  rec.out.t = "record" =>
    \A step \in {"timestamp", "addMdcDataFormat", "ErrorFormat", "json"} :
      \E i \in 1..Len(rec.out.format) : rec.out.format[i] = step

(* C22: the format of every logger built by createLogger ends with        *)
(* timestamp, errors, ErrorFormat, json in this order; what precedes them *)
(* is the caller's format and nothing else; records are processed with    *)
(* such a format.  (Of the options of the model, the one with a format   *)
(* is the one with the File transport.)                                   *)
DefaultStepsLast(f) ==
  /\ Len(f) \in {4, 5}
  /\ SubSeq(f, Len(f) - 3, Len(f)) = <<"timestamp", "errors", "ErrorFormat", "json">>
  /\ Len(f) = 5 => f[1] = "custom"

C22_PipelineOrder ==
  /\ \A l \in LoggerIds : lstat[l] = "built" => DefaultStepsLast(lconf[l].format)
  /\ rec.out.t = "record" => DefaultStepsLast(rec.out.format)
  /\ (fres.op = "createLogger" /\ ~fres.threw) =>
       (Len(lconf[fres.ret].format) = 5 <=> lconf[fres.ret].transports = <<"File">>)

\* a record went through a logger built with a caller's format
C22_Witness ==
  /\ rec.out.t = "record"
  /\ Len(rec.out.format) = 5

(* C23 (as claimed): the marker stands only where an object is its own    *)
(* ancestor; when no object reachable from the logged one is on a cycle,  *)
(* every occurrence of every error is serialized in full and the output   *)
(* holds no marker.                                                       *)
C23_SentinelOnlyOnCycle ==
  (Formatted /\ \A m \in {out.id} \cup Reach(out.id) : ~OnCycle(m)) =>
    ~OutHasSentinel

C25_PutInPlace ==
  [][ \A k \in Keys, v \in Vals :
        (Put(k, v) /\ tstore[cur] # NoStore) =>
          /\ tstore'[cur] = tstore[cur]
          /\ nobj' = nobj
          /\ \A t \in TaskIds :
               (Live(t) /\ tstore[t] = tstore[cur]) =>
                 MDCget(heap', tstore'[t], k) = v ]_vars

\* a put was made in a store that a waiting continuation had inherited
C25_Witness ==
  /\ hist.last.op = "put"
  /\ hist.last.shared

(* C28 (as claimed): no step changes the keys or values of a map object   *)
(* that the caller gave to putAll or runWithContext.                      *)
C28_CallerMapsUntouched ==
  [][ \A o \in ObjIds : kind[o] = "caller" => heap'[o] = heap[o] ]_vars

C27_ReadDateOutcome ==
  /\ dres.op = "isValidDate" =>
       /\ ~dres.threw
       /\ dres.ret = ~readDate(dres.s, dres.f, "UTC").threw
  /\ dres.op = "readDate" =>
       LET p == parse(dres.s, IF dres.f = Unset THEN ISO_8601_FORMAT ELSE dres.f, dres.tz)
           invalid == ~p.threw /\ ~isValid(p.date)
       IN  /\ invalid <=> (dres.threw /\ dres.exc.name = "IllegalArgumentException")
           /\ ~invalid => (~dres.threw /\ dres.ret = p.date)

(* C30: getBoolean returns true for a stored true or 'true' and false for *)
(* a stored false or 'false', throws IllegalArgumentException for every   *)
(* other stored value and BaseException for an absent key, and leaves the *)
(* container as it was.                                                   *)
C30_GetBoolean ==
  jres.op = "getBoolean" =>
    LET v == jres.before[jres.key] IN
      /\ jmap = jres.before
      /\ v = JAbsent => (jres.threw /\ jres.exc.name = "BaseException")
      /\ v \in {JBool("true"), JString("true")} => (~jres.threw /\ jres.ret = TRUE)
      /\ v \in {JBool("false"), JString("false")} => (~jres.threw /\ jres.ret = FALSE)
      /\ v \notin {JAbsent, JBool("true"), JString("true"), JBool("false"), JString("false")} =>
           (jres.threw /\ jres.exc.name = "IllegalArgumentException")

(* C29: a call of getStackTrace returns, also when the cause chain of the *)
(* exception holds a cycle; for an acyclic chain the returned trace has   *)
(* one 'Caused by' entry per cause, the outermost first, ending with the  *)
(* first cause that is not an error.                                      *)
C29_StackTraceTerminates ==
  /\ (tpc = "loop") ~> (tpc = "done")
  /\ []((tpc = "done" /\ AcyclicFrom(hist.root)) =>
          tout = CauseChain(gcause[hist.root], MaxEntries))

=============================================================================
